---- MODULE Spec2Model ----
(***************************************************************************)
(* Admin panel of the restaurant order manager.                            *)
(*                                                                         *)
(*   Admin.tsx        settings page: loadSettings, handleSave              *)
(*   OrdersTable.tsx  orders viewer: fetchOrders, expand/collapse,         *)
(*                    calculateSubtotal                                    *)
(*   migration .sql   DO $$ block adding delivery_fee / total_amount       *)
(*                                                                         *)
(* Every `await supabase...` is a point where other events may run, so a   *)
(* handler is cut at its awaits: one action issues the query, the next one *)
(* is the query's return (the data store answers atomically) followed by   *)
(* the handler's code up to its next await.                                *)
(***************************************************************************)
EXTENDS Integers, Sequences, FiniteSets, TLC

\* ------------------------------------------------------------- bounds
NumSessions == 2   \* browser sessions with the Admin page open
NumValues   == 2   \* distinct non-empty API key strings a user may type
MaxSaves    == 3   \* handleSave submissions over all sessions
MaxOrders   == 3   \* rows of the orders table
MaxItems    == 3   \* line items of an order given to calculateSubtotal
MaxPrice    == 2   \* largest unit price
MaxQuantity == 2   \* largest quantity
MaxRuns     == 3   \* runs of the migration

Sessions == 1..NumSessions
Values   == 1..NumValues

OrderIds == 1..MaxOrders

\* useState('') of resendApiKey: the empty string
EmptyKey == 0

\* useState<string | null>(null) of expandedOrderId: null
NoOrder == 0

SettingsKey == "resend_api_key"
SettingsDescription == "API key for Resend email service"

VARIABLES
  \* ---- settings store (table `settings`) and its clock
  settings,        \* set of rows [id, key, value, description, updated_at]
  nextId,          \* next id the store gives an inserted row
  now,             \* logical time, read by new Date() and by the store
  \* ---- Admin component, one per session
  adminPc,         \* "mount" | "idle" | "lookup" | "update" | "insert"
  fetching,        \* useState(true)
  resendApiKey,    \* useState(''): the input's value
  saveLoading,     \* Admin's `loading`, useState(false)
  message,         \* "null" | "success" | "error"
  saveValue,       \* resendApiKey as captured by the running handleSave
  existsError,     \* handleSave's existsError (TRUE: the lookup failed)
  existingData,    \* handleSave's existingData: set of ids, {} is null
  writeError,      \* handleSave's `error`: "null" | "network" | "unique_violation"
  \* ---- history of the save runs
  saves,           \* handleSave runs started so far
  branch,          \* branch the session's latest run took: "none" | "update" | "insert"
  wrote,           \* the session's latest run changed the store
  idsAtStart,      \* ids of the key's rows when the session's latest run started
  calls,           \* data-store calls the session's latest run has issued
  raceRejected,    \* a run of the session saw no row, without error, and its
                   \* insert was rejected by the unique key
  overlap,         \* two handleSave runs have overlapped
  lastSaved,       \* value of the latest successful save, EmptyKey if none
  \* ---- tables `orders` and `order_items`
  ordersTable,     \* set of rows [id, created_at]
  itemsTable,      \* order id -> sequence of [product_name, price, quantity]
  \* ---- OrdersTable component
  fetchPc,         \* "mount" | "orders" | "items" | "done"
  orders,          \* useState<Order[]>([])
  loading,         \* useState(true)
  error,           \* useState<string | null>(null); "null" is null
  expandedOrderId, \* useState<string | null>(null); NoOrder is null
  ordersData,      \* fetchOrders' ordersData (<<>> until the query returns)
  ordersError,     \* fetchOrders' ordersError
  slots,           \* one per mapped order: [status, data] of its items query
  \* ---- history
  setOrdersCalls,  \* calls of setOrders so far
  lastToggle,      \* [id, was]: the row last clicked and expandedOrderId before
  \* ---- the expanded row's subtotal line
  lineItems,       \* order.items given to calculateSubtotal
  shown,           \* which of "items", "reversed" have been computed
  subtotal,        \* calculateSubtotal(order.items)
  subtotalReversed,\* calculateSubtotal of the same items in reverse order
  \* ---- database schema and the migration's DO block
  schema,          \* table name -> set of the column names the block reads
  migPc,           \* "idle" | "first" | "second": the statement to run next
  snapshot,        \* schema when the running (or latest) block began
  executed,        \* columns whose ADD COLUMN the block has executed
  migResult,       \* "none" | "ok" | "error"
  runs             \* runs of the migration so far

settingsVars == <<settings, nextId, now, adminPc, fetching, resendApiKey,
                  saveLoading, message, saveValue, existsError, existingData,
                  writeError, saves, branch, wrote, idsAtStart, calls,
                  raceRejected, overlap, lastSaved>>

ordersVars == <<ordersTable, itemsTable, fetchPc, orders, loading, error,
                expandedOrderId, ordersData, ordersError, slots, setOrdersCalls,
                lastToggle>>

subtotalVars == <<lineItems, shown, subtotal, subtotalReversed>>

migrationVars == <<schema, migPc, snapshot, executed, migResult, runs>>

vars == <<settingsVars, ordersVars, subtotalVars, migrationVars>>

\* ------------------------------------------------------ settings store

\* .from('settings') ... .eq('key', 'resend_api_key')
KeyRows(store, key) == {r \in store : r.key = key}

RowIds(rows) == {r.id : r \in rows}

\* .maybeSingle(): an error when more than one row matches
MaybeSingleFails(rows) == Cardinality(rows) > 1

\* settings.key is UNIQUE: an insert of a key the table holds is rejected
InsertViolatesUnique(store, key) == KeyRows(store, key) # {}

\* a patch that refreshes the timestamp and leaves the value out
UpdatePatchKeepsValue(row, v, t) == [row EXCEPT !.updated_at = t]
\* .update({ value: resendApiKey, updated_at: new Date().toISOString() })
UpdatePatch(row, v, t) == [row EXCEPT !.value = v, !.updated_at = t]

\* .update(patch).eq('key', key): every matching row is patched
StoreUpdate(store, key, v, t) ==
  {IF r.key = key THEN UpdatePatch(r, v, t) ELSE r : r \in store}

\* .insert([{ key, value, description }]); id and updated_at are the table's defaults
InsertedRow(id, v, t) ==
  [id |-> id, key |-> SettingsKey, value |-> v,
   description |-> SettingsDescription, updated_at |-> t]

\* the branch on existingData never taken: every save inserts
TakesInsertAlways(data) == FALSE
\* if (existingData) { update } else { insert }
TakesUpdate(data) == data # {}

Running(s) == adminPc[s] \in {"lookup", "update", "insert"}

\* ------------------------------------------------------ Admin: loadSettings

\* useEffect(() => loadSettings(), []): the lookup's return
loadSettings(s) ==
  /\ adminPc[s] = "mount"
  /\ \E failed \in BOOLEAN :
       LET rows == KeyRows(settings, SettingsKey)
           err  == failed \/ MaybeSingleFails(rows)
       IN resendApiKey' =
            [resendApiKey EXCEPT ![s] =
               IF ~err /\ rows # {} THEN (CHOOSE r \in rows : TRUE).value
               ELSE @]
  /\ fetching' = [fetching EXCEPT ![s] = FALSE]
  /\ adminPc' = [adminPc EXCEPT ![s] = "idle"]
  /\ UNCHANGED <<settings, nextId, now, saveLoading, message, saveValue,
                 existsError, existingData, writeError, saves, branch, wrote,
                 idsAtStart, calls, raceRejected, overlap, lastSaved>>
  /\ UNCHANGED <<ordersVars, subtotalVars, migrationVars>>

\* onChange={(e) => setResendApiKey(e.target.value)}
setResendApiKey(s, v) == resendApiKey' = [resendApiKey EXCEPT ![s] = v]

\* ------------------------------------------------------ Admin: handleSave

\* The user leaves v in the input and submits the form. What is typed while a
\* run is in flight is not seen by that run (it has captured resendApiKey) and
\* only matters as the content of the input at the next submit, so the edits
\* of the input are taken together with the submit that follows them.
\* The submit button: disabled={loading || !resendApiKey}; then handleSave up
\* to its first await (the existence lookup is issued).
handleSaveStart(s, v) ==
  /\ adminPc[s] = "idle"
  /\ ~fetching[s]
  /\ setResendApiKey(s, v)
  /\ ~(saveLoading[s] \/ v = EmptyKey)
  /\ saves < MaxSaves
  /\ saves' = saves + 1
  /\ saveLoading' = [saveLoading EXCEPT ![s] = TRUE]
  /\ message' = [message EXCEPT ![s] = "null"]
  /\ saveValue' = [saveValue EXCEPT ![s] = v]
  /\ existsError' = [existsError EXCEPT ![s] = FALSE]
  /\ existingData' = [existingData EXCEPT ![s] = {}]
  /\ writeError' = [writeError EXCEPT ![s] = "null"]
  /\ branch' = [branch EXCEPT ![s] = "none"]
  /\ wrote' = [wrote EXCEPT ![s] = FALSE]
  /\ idsAtStart' = [idsAtStart EXCEPT ![s] = RowIds(KeyRows(settings, SettingsKey))]
  /\ overlap' = (overlap \/ \E t \in Sessions \ {s} : Running(t))
  /\ calls' = [calls EXCEPT ![s] = 1]
  /\ adminPc' = [adminPc EXCEPT ![s] = "lookup"]
  /\ UNCHANGED <<settings, nextId, now, fetching, raceRejected, lastSaved>>
  /\ UNCHANGED <<ordersVars, subtotalVars, migrationVars>>

\* the lookup returns { error: existsError, data: existingData }; existsError
\* is never read, and the branch on existingData issues the update or the insert
handleSaveLookup(s) ==
  /\ adminPc[s] = "lookup"
  /\ \E failed \in BOOLEAN :
       LET rows == KeyRows(settings, SettingsKey)
           err  == failed \/ MaybeSingleFails(rows)
           data == IF err THEN {} ELSE RowIds(rows)
       IN /\ existsError' = [existsError EXCEPT ![s] = err]
          /\ existingData' = [existingData EXCEPT ![s] = data]
          /\ adminPc' = [adminPc EXCEPT ![s] =
                           IF TakesUpdate(data) THEN "update" ELSE "insert"]
          /\ branch' = [branch EXCEPT ![s] =
                           IF TakesUpdate(data) THEN "update" ELSE "insert"]
  /\ calls' = [calls EXCEPT ![s] = @ + 1]
  /\ UNCHANGED <<settings, nextId, now, fetching, resendApiKey, saveLoading,
                 message, saveValue, writeError, saves, wrote, idsAtStart,
                 raceRejected, overlap, lastSaved>>
  /\ UNCHANGED <<ordersVars, subtotalVars, migrationVars>>

\* what follows the write's return: if (error) throw error; setMessage(success)
\* or catch: setMessage(error); finally: setLoading(false)
handleSaveFinish(s, err) ==
  /\ writeError' = [writeError EXCEPT ![s] = err]
  /\ message' = [message EXCEPT ![s] = IF err = "null" THEN "success" ELSE "error"]
  /\ saveLoading' = [saveLoading EXCEPT ![s] = FALSE]
  /\ lastSaved' = IF err = "null" THEN saveValue[s] ELSE lastSaved
  /\ raceRejected' = [raceRejected EXCEPT ![s] =
                        @ \/ (err = "unique_violation" /\ ~existsError[s])]
  /\ adminPc' = [adminPc EXCEPT ![s] = "idle"]

\* the update's return
handleSaveUpdate(s) ==
  /\ adminPc[s] = "update"
  /\ \E failed \in BOOLEAN :
       /\ settings' = IF failed THEN settings
                      ELSE StoreUpdate(settings, SettingsKey, saveValue[s], now)
       /\ now' = IF failed THEN now ELSE now + 1
       /\ wrote' = [wrote EXCEPT ![s] = ~failed]
       /\ handleSaveFinish(s, IF failed THEN "network" ELSE "null")
  /\ UNCHANGED <<nextId, fetching, resendApiKey, saveValue, existsError,
                 existingData, saves, branch, idsAtStart, calls, overlap>>
  /\ UNCHANGED <<ordersVars, subtotalVars, migrationVars>>

\* the insert's return
handleSaveInsert(s) ==
  /\ adminPc[s] = "insert"
  /\ \E failed \in BOOLEAN :
       LET err == IF failed THEN "network"
                  ELSE IF InsertViolatesUnique(settings, SettingsKey)
                       THEN "unique_violation" ELSE "null"
       IN /\ settings' = IF err = "null"
                         THEN settings \cup {InsertedRow(nextId, saveValue[s], now)}
                         ELSE settings
          /\ nextId' = IF err = "null" THEN nextId + 1 ELSE nextId
          /\ now' = IF err = "null" THEN now + 1 ELSE now
          /\ wrote' = [wrote EXCEPT ![s] = (err = "null")]
          /\ handleSaveFinish(s, err)
  /\ UNCHANGED <<fetching, resendApiKey, saveValue, existsError, existingData,
                 saves, branch, idsAtStart, calls, overlap>>
  /\ UNCHANGED <<ordersVars, subtotalVars, migrationVars>>

\* no row is expanded: no subtotal is computed
SubtotalIdle ==
  /\ lineItems = <<>>
  /\ shown = {}
  /\ subtotal = 0
  /\ subtotalReversed = 0

Tables == {"orders", "order_items"}
NewColumns == {"delivery_fee", "total_amount"}

\* the migration has been applied and is not run again
MigrationIdle ==
  /\ schema = [t \in Tables |-> IF t = "orders" THEN NewColumns ELSE {}]
  /\ migPc = "idle"
  /\ snapshot = schema
  /\ executed = {}
  /\ migResult = "none"
  /\ runs = 0

\* the orders tab is not mounted
OrdersIdle ==
  /\ ordersTable = {}
  /\ itemsTable = [o \in OrderIds |-> <<>>]
  /\ fetchPc = "mount"
  /\ orders = <<>>
  /\ loading = TRUE
  /\ error = "null"
  /\ expandedOrderId = NoOrder
  /\ ordersData = <<>>
  /\ ordersError = FALSE
  /\ slots = <<>>
  /\ setOrdersCalls = 0
  /\ lastToggle = [id |-> NoOrder, was |-> NoOrder]

InitSettings ==
  /\ OrdersIdle /\ SubtotalIdle /\ MigrationIdle
  /\ \E v \in Values :
       settings \in {{}, {[id |-> 1, key |-> SettingsKey, value |-> v,
                           description |-> SettingsDescription, updated_at |-> 0]}}
  /\ nextId = 1 + Cardinality(settings)
  /\ now = 1
  /\ adminPc = [s \in Sessions |-> "mount"]
  /\ fetching = [s \in Sessions |-> TRUE]
  /\ resendApiKey = [s \in Sessions |-> EmptyKey]
  /\ saveLoading = [s \in Sessions |-> FALSE]
  /\ message = [s \in Sessions |-> "null"]
  /\ saveValue = [s \in Sessions |-> EmptyKey]
  /\ existsError = [s \in Sessions |-> FALSE]
  /\ existingData = [s \in Sessions |-> {}]
  /\ writeError = [s \in Sessions |-> "null"]
  /\ saves = 0
  /\ branch = [s \in Sessions |-> "none"]
  /\ wrote = [s \in Sessions |-> FALSE]
  /\ idsAtStart = [s \in Sessions |-> {}]
  /\ calls = [s \in Sessions |-> 0]
  /\ raceRejected = [s \in Sessions |-> FALSE]
  /\ overlap = FALSE
  /\ lastSaved = EmptyKey

NextSettings ==
  \/ \E s \in Sessions : loadSettings(s)
  \/ \E s \in Sessions : \E v \in Values \cup {EmptyKey} : handleSaveStart(s, v)
  \/ \E s \in Sessions : handleSaveLookup(s)
  \/ \E s \in Sessions : handleSaveUpdate(s)
  \/ \E s \in Sessions : handleSaveInsert(s)

\* the settings page
SpecSettings == InitSettings /\ [][NextSettings]_vars
\* ------------------------------------------------------ tables orders, order_items

\* the row .order('created_at', { ascending: false }) puts first, and the
\* row the ascending order would put first
Newest(rows) == CHOOSE r \in rows : \A q \in rows : q.created_at <= r.created_at
Oldest(rows) == CHOOSE r \in rows : \A q \in rows : q.created_at >= r.created_at

RECURSIVE OrderByCreatedAtAsc(_)
OrderByCreatedAtAsc(rows) ==
  IF rows = {} THEN <<>>
  ELSE <<Oldest(rows)>> \o OrderByCreatedAtAsc(rows \ {Oldest(rows)})

RECURSIVE OrderByCreatedAtDesc(_)
OrderByCreatedAtDesc(rows) ==
  IF rows = {} THEN <<>>
  ELSE <<Newest(rows)>> \o OrderByCreatedAtDesc(rows \ {Newest(rows)})

\* .order('created_at', { ascending: true })
OrdersQueryAscending(rows) == OrderByCreatedAtAsc(rows)
\* .from('orders').select(...).order('created_at', { ascending: false })
OrdersQuery(rows) == OrderByCreatedAtDesc(rows)

\* .from('order_items').select(...).eq('order_id', order.id)
ItemsQuery(table, id) == table[id]

\* ------------------------------------------------------ OrdersTable: fetchOrders

\* itemsData || []
ItemsOrEmpty(slot) == IF slot.status = "data" THEN slot.data ELSE <<>>

\* return { ...order, items: itemsData || [] }
WithItems(order, slot) ==
  [id |-> order.id, created_at |-> order.created_at, items |-> ItemsOrEmpty(slot)]

\* the failed branch is dropped from the list
JoinDropsFailed(data, sl) ==
  LET kept == SelectSeq([i \in 1..Len(data) |-> [o |-> data[i], s |-> sl[i]]],
                        LAMBDA p : p.s.status = "data")
  IN [i \in 1..Len(kept) |-> WithItems(kept[i].o, kept[i].s)]
\* Promise.all(ordersData.map(...)): the results in the order of ordersData
Join(data, sl) == [i \in 1..Len(data) |-> WithItems(data[i], sl[i])]

\* Promise.all resolves when the first branch has returned
SomeReturned(sl) == \E i \in 1..Len(sl) : sl[i].status # "pending"
\* Promise.all resolves when every branch has returned
AllReturned(sl) == \A i \in 1..Len(sl) : sl[i].status # "pending"

\* setOrders(ordersWithItems); finally setLoading(false)
Publish(list) ==
  /\ orders' = list
  /\ setOrdersCalls' = setOrdersCalls + 1
  /\ loading' = FALSE
  /\ fetchPc' = "done"

\* the error falls through to `if (!ordersData) { setOrders([]); return; }`
OrdersErrorFallsThrough ==
  /\ error' = "Failed to fetch orders"
  /\ Publish(<<>>)
\* if (ordersError) { setError('Failed to fetch orders'); return; } finally
OrdersErrorBranch ==
  /\ error' = "Failed to fetch orders"
  /\ loading' = FALSE
  /\ fetchPc' = "done"
  /\ UNCHANGED <<orders, setOrdersCalls>>

\* useEffect(() => fetchOrders(), []): fetchOrders up to its first await
fetchOrdersStart ==
  /\ fetchPc = "mount"
  /\ loading' = TRUE
  /\ error' = "null"
  /\ fetchPc' = "orders"
  /\ UNCHANGED <<ordersTable, itemsTable, orders, expandedOrderId, ordersData,
                 ordersError, slots, setOrdersCalls, lastToggle>>
  /\ UNCHANGED <<settingsVars, subtotalVars, migrationVars>>

\* the orders query returns { data: ordersData, error: ordersError }; with data,
\* the map issues every items query before fetchOrders awaits Promise.all
fetchOrdersReturn ==
  /\ fetchPc = "orders"
  /\ \/ /\ ordersError' = TRUE
        /\ OrdersErrorBranch
        /\ UNCHANGED <<ordersData, slots>>
     \/ \* data is null without an error: if (!ordersData) { setOrders([]); return; }
        /\ Publish(<<>>)
        /\ UNCHANGED <<ordersError, ordersData, slots, error>>
     \/ LET data == OrdersQuery(ordersTable)
            sl   == [i \in 1..Len(data) |-> [status |-> "pending", data |-> <<>>]]
        IN /\ ordersData' = data
           /\ slots' = sl
           /\ IF AllReturned(sl)
              THEN Publish(Join(data, sl))
              ELSE /\ fetchPc' = "items"
                   /\ UNCHANGED <<orders, setOrdersCalls, loading>>
           /\ UNCHANGED <<ordersError, error>>
  /\ UNCHANGED <<ordersTable, itemsTable, expandedOrderId, lastToggle>>
  /\ UNCHANGED <<settingsVars, subtotalVars, migrationVars>>

\* the items query of position i returns { data: itemsData } (its error is not
\* read); the last return resolves Promise.all
itemsReturn(i) ==
  /\ fetchPc = "items"
  /\ i \in 1..Len(slots)
  /\ slots[i].status = "pending"
  /\ \E failed \in BOOLEAN :
       LET sl == [slots EXCEPT ![i] =
                   IF failed THEN [status |-> "error", data |-> <<>>]
                   ELSE [status |-> "data",
                         data |-> ItemsQuery(itemsTable, ordersData[i].id)]]
       IN /\ slots' = sl
          /\ IF AllReturned(sl)
             THEN Publish(Join(ordersData, sl))
             ELSE UNCHANGED <<orders, setOrdersCalls, loading, fetchPc>>
  /\ UNCHANGED <<ordersTable, itemsTable, error, expandedOrderId, ordersData,
                 ordersError, lastToggle>>
  /\ UNCHANGED <<settingsVars, subtotalVars, migrationVars>>

\* ------------------------------------------------------ OrdersTable: expand/collapse

\* the rows are rendered: not loading, no error, orders.length > 0
Rendered(o) ==
  /\ ~loading
  /\ error = "null"
  /\ \E i \in 1..Len(orders) : orders[i].id = o

\* a click that always expands the clicked row
ToggleNeverCollapses(current, o) == o
\* expandedOrderId === order.id ? null : order.id
ToggleTarget(current, o) == IF current = o THEN NoOrder ELSE o

\* onClick={() => setExpandedOrderId(...)}
toggleExpanded(o) ==
  /\ Rendered(o)
  /\ expandedOrderId' = ToggleTarget(expandedOrderId, o)
  /\ lastToggle' = [id |-> o, was |-> expandedOrderId]
  /\ UNCHANGED <<ordersTable, itemsTable, fetchPc, orders, loading, error,
                 ordersData, ordersError, slots, setOrdersCalls>>
  /\ UNCHANGED <<settingsVars, subtotalVars, migrationVars>>

\* line items of the model's orders
ItemsOf(o) ==
  <<[product_name |-> o, price |-> o, quantity |-> 1],
    [product_name |-> o + MaxOrders, price |-> 1, quantity |-> 2]>>

\* the settings tab is not used
SettingsIdle ==
  /\ settings = {}
  /\ nextId = 1
  /\ now = 1
  /\ adminPc = [s \in Sessions |-> "mount"]
  /\ fetching = [s \in Sessions |-> TRUE]
  /\ resendApiKey = [s \in Sessions |-> EmptyKey]
  /\ saveLoading = [s \in Sessions |-> FALSE]
  /\ message = [s \in Sessions |-> "null"]
  /\ saveValue = [s \in Sessions |-> EmptyKey]
  /\ existsError = [s \in Sessions |-> FALSE]
  /\ existingData = [s \in Sessions |-> {}]
  /\ writeError = [s \in Sessions |-> "null"]
  /\ saves = 0
  /\ branch = [s \in Sessions |-> "none"]
  /\ wrote = [s \in Sessions |-> FALSE]
  /\ idsAtStart = [s \in Sessions |-> {}]
  /\ calls = [s \in Sessions |-> 0]
  /\ raceRejected = [s \in Sessions |-> FALSE]
  /\ overlap = FALSE
  /\ lastSaved = EmptyKey

\* the tables hold any set of orders with distinct ids and creation times,
\* each with line items or none
InitOrders ==
  /\ SettingsIdle /\ SubtotalIdle /\ MigrationIdle
  /\ \E ids \in SUBSET OrderIds :
       \E at \in [ids -> 1..MaxOrders] :
         /\ \A a, b \in ids : a # b => at[a] # at[b]
         /\ ordersTable = {[id |-> o, created_at |-> at[o]] : o \in ids}
         /\ \E withItems \in SUBSET ids :
              itemsTable = [o \in OrderIds |->
                              IF o \in withItems THEN ItemsOf(o) ELSE <<>>]
  /\ fetchPc = "mount"
  /\ orders = <<>>
  /\ loading = TRUE
  /\ error = "null"
  /\ expandedOrderId = NoOrder
  /\ ordersData = <<>>
  /\ ordersError = FALSE
  /\ slots = <<>>
  /\ setOrdersCalls = 0
  /\ lastToggle = [id |-> NoOrder, was |-> NoOrder]

NextOrders ==
  \/ fetchOrdersStart
  \/ fetchOrdersReturn
  \/ \E i \in 1..MaxOrders : itemsReturn(i)
  \/ \E o \in OrderIds : toggleExpanded(o)

SpecOrders == InitOrders /\ [][NextOrders]_vars

\* every query that was issued returns
FairOrders ==
  /\ WF_vars(fetchOrdersStart)
  /\ WF_vars(fetchOrdersReturn)
  /\ \A i \in 1..MaxOrders : WF_vars(itemsReturn(i))

FairSpecOrders == SpecOrders /\ FairOrders

\* ------------------------------------------------------ OrdersTable: calculateSubtotal

\* items.reduce((sum, item) => sum + item.price * item.quantity, 0): a fold from
\* the left. The amounts of the model are far below 2^53, where the sums and
\* products of JavaScript numbers are exact.
\* a fold that adds the unit prices only
RECURSIVE reduceIgnoringQuantity(_, _, _)
reduceIgnoringQuantity(items, i, sum) ==
  IF i > Len(items) THEN sum
  ELSE reduceIgnoringQuantity(items, i + 1, sum + items[i].price)

RECURSIVE reduce(_, _, _)
reduce(items, i, sum) ==
  IF i > Len(items) THEN sum
  ELSE reduce(items, i + 1, sum + items[i].price * items[i].quantity)

calculateSubtotalIgnoringQuantity(items) == reduceIgnoringQuantity(items, 1, 0)
calculateSubtotal(items) == reduce(items, 1, 0)

Reverse(seq) == [i \in 1..Len(seq) |-> seq[Len(seq) + 1 - i]]

\* <span>{calculateSubtotal(order.items)} PKR</span>
renderSubtotal ==
  /\ "items" \notin shown
  /\ subtotal' = calculateSubtotal(lineItems)
  /\ shown' = shown \cup {"items"}
  /\ UNCHANGED <<lineItems, subtotalReversed>>
  /\ UNCHANGED <<settingsVars, ordersVars, migrationVars>>

\* the same order with its items in reverse order
renderSubtotalReversed ==
  /\ "reversed" \notin shown
  /\ subtotalReversed' = calculateSubtotal(Reverse(lineItems))
  /\ shown' = shown \cup {"reversed"}
  /\ UNCHANGED <<lineItems, subtotal>>
  /\ UNCHANGED <<settingsVars, ordersVars, migrationVars>>

\* OrderItem: price a non-negative integer, quantity a positive integer
OrderItems == [price : 0..MaxPrice, quantity : 1..MaxQuantity]

RECURSIVE SeqsUpTo(_, _)
SeqsUpTo(S, n) ==
  IF n = 0 THEN {<<>>}
  ELSE SeqsUpTo(S, n - 1) \cup [1..n -> S]

InitSubtotal ==
  /\ SettingsIdle /\ OrdersIdle /\ MigrationIdle
  /\ lineItems \in SeqsUpTo(OrderItems, MaxItems)
  /\ shown = {}
  /\ subtotal = 0
  /\ subtotalReversed = 0

NextSubtotal ==
  \/ renderSubtotal
  \/ renderSubtotalReversed

SpecSubtotal == InitSubtotal /\ [][NextSubtotal]_vars

\* ------------------------------------------------------ migration: DO $$ block

\* SELECT 1 FROM information_schema.columns WHERE table_name = ... AND column_name = ...
ColumnExists(sch, table, column) == column \in sch[table]

\* the table the IF NOT EXISTS guards look at
GuardTable == "order_items"

\* the table ALTER TABLE ... ADD COLUMN changes
AlteredTable == "orders"

\* ALTER TABLE orders ADD COLUMN c: an error when orders has a column c
AddColumnFails(sch, column) == ColumnExists(sch, AlteredTable, column)
AddColumn(sch, column) == [sch EXCEPT ![AlteredTable] = @ \cup {column}]

\* DO $$ BEGIN: the block starts
migrationBegin ==
  /\ migPc = "idle"
  /\ runs < MaxRuns
  /\ runs' = runs + 1
  /\ snapshot' = schema
  /\ executed' = {}
  /\ migResult' = "none"
  /\ migPc' = "first"
  /\ UNCHANGED schema
  /\ UNCHANGED <<settingsVars, ordersVars, subtotalVars>>

\* IF NOT EXISTS (... column) THEN ALTER TABLE orders ADD COLUMN column; END IF;
\* an error ends the block and undoes what it did
migrationStatement(column, next) ==
  IF ColumnExists(schema, GuardTable, column)
  THEN /\ migPc' = next
       /\ migResult' = IF next = "idle" THEN "ok" ELSE migResult
       /\ UNCHANGED <<schema, executed>>
  ELSE /\ executed' = executed \cup {column}
       /\ IF AddColumnFails(schema, column)
          THEN /\ schema' = snapshot
               /\ migResult' = "error"
               /\ migPc' = "idle"
          ELSE /\ schema' = AddColumn(schema, column)
               /\ migResult' = IF next = "idle" THEN "ok" ELSE migResult
               /\ migPc' = next

migrationFirst ==
  /\ migPc = "first"
  /\ migrationStatement("delivery_fee", "second")
  /\ UNCHANGED <<snapshot, runs>>
  /\ UNCHANGED <<settingsVars, ordersVars, subtotalVars>>

migrationSecond ==
  /\ migPc = "second"
  /\ migrationStatement("total_amount", "idle")
  /\ UNCHANGED <<snapshot, runs>>
  /\ UNCHANGED <<settingsVars, ordersVars, subtotalVars>>

\* any columns of the two tables may be there when the migration is first run
InitMigration ==
  /\ SettingsIdle /\ OrdersIdle /\ SubtotalIdle
  /\ schema \in [Tables -> SUBSET NewColumns]
  /\ migPc = "idle"
  /\ snapshot = schema
  /\ executed = {}
  /\ migResult = "none"
  /\ runs = 0

NextMigration ==
  \/ migrationBegin
  \/ migrationFirst
  \/ migrationSecond

SpecMigration == InitMigration /\ [][NextMigration]_vars

\* ------------------------------------------------------ claims: settings

TheRows == KeyRows(settings, SettingsKey)

\* C1: while no two handleSave runs have overlapped, a session whose latest
\* save succeeded sees exactly one row for 'resend_api_key'; if the key had a
\* row when that save started it is still the same row (same id); and the
\* row's value is the value of the latest successful save.
C1_SequentialSavesKeepOneRow ==
  ~overlap =>
    /\ \A s \in Sessions :
         (adminPc[s] = "idle" /\ message[s] = "success") =>
           /\ Cardinality(TheRows) = 1
           /\ idsAtStart[s] # {} => RowIds(TheRows) = idsAtStart[s]
    /\ lastSaved # EmptyKey =>
         /\ Cardinality(TheRows) = 1
         /\ \A r \in TheRows : r.value = lastSaved

\* a first save inserted the row, a later save of another session updated it
C1_Witness ==
  /\ ~overlap
  /\ \E s, t \in Sessions :
       /\ s # t
       /\ adminPc[s] = "idle" /\ message[s] = "success" /\ branch[s] = "insert"
       /\ adminPc[t] = "idle" /\ message[t] = "success" /\ branch[t] = "update"
       /\ idsAtStart[s] = {} /\ idsAtStart[t] # {}
       /\ \E r \in TheRows : r.value = saveValue[t] /\ saveValue[t] # saveValue[s]

\* C2: under any interleaving of handleSave runs the store holds at most one
\* row for the key; a run whose insert the unique key rejected has ended with
\* the error message, cleared loading, changed nothing and issued no third
\* call (no retry); a run whose lookup returned the row took the update path
\* and shows success exactly when the update returned no error.
C2_RaceEndsInErrorThenUpdate ==
  /\ Cardinality(TheRows) <= 1
  /\ \A s \in Sessions :
       /\ calls[s] <= 2
       /\ writeError[s] = "unique_violation" =>
            /\ adminPc[s] = "idle" /\ branch[s] = "insert"
            /\ message[s] = "error" /\ ~saveLoading[s] /\ ~wrote[s]
       /\ existingData[s] # {} =>
            /\ branch[s] = "update"
            /\ adminPc[s] = "idle" =>
                 (message[s] = "success" <=> writeError[s] = "null")

\* a session lost the insert race earlier and its resubmitted save went
\* through the update path
C2_Witness ==
  \E s \in Sessions :
    /\ raceRejected[s] /\ overlap
    /\ adminPc[s] = "idle" /\ branch[s] = "update" /\ message[s] = "success"
    /\ existingData[s] # {} /\ calls[s] = 2
    /\ \E r \in TheRows : r.value = saveValue[s]

\* C9: a finished save whose lookup returned an error shows the error message
\* and has not changed the store; the success message is shown only when
\* neither the lookup nor the write returned an error.
C9_LookupErrorFailsTheSave ==
  \A s \in Sessions :
    adminPc[s] = "idle" =>
      /\ existsError[s] => (message[s] = "error" /\ ~wrote[s])
      /\ message[s] = "success" => (~existsError[s] /\ writeError[s] = "null")
\* ------------------------------------------------------ claims: orders

Positions == 1..Len(ordersData)

Pending == \E i \in 1..Len(slots) : slots[i].status = "pending"

\* C3: when fetchOrders has ended after a successful orders query, the list
\* holds every order of the query's response; an order whose items query
\* failed has no items, an order whose items query succeeded has the items
\* returned for it, and no error is set.
C3_ItemFailuresAreIsolated ==
  (fetchPc = "done" /\ ~ordersError) =>
    /\ error = "null"
    /\ {orders[i].id : i \in 1..Len(orders)} = {ordersData[i].id : i \in Positions}
    /\ \A i \in Positions :
         \E j \in 1..Len(orders) :
           /\ orders[j].id = ordersData[i].id
           /\ slots[i].status = "error" => orders[j].items = <<>>
           /\ slots[i].status = "data" =>
                orders[j].items = ItemsQuery(itemsTable, ordersData[i].id)

\* one items query failed for an order that has items, another one succeeded
C3_Witness ==
  /\ fetchPc = "done" /\ ~ordersError
  /\ \E i, j \in Positions :
       /\ slots[i].status = "error" /\ itemsTable[ordersData[i].id] # <<>>
       /\ slots[j].status = "data" /\ orders[j].items # <<>>

\* C4: once the orders query has returned an error the cycle is over: no
\* items query was issued, setOrders was never called and the list is still
\* empty, the error message is set and loading is false.
C4_OrdersErrorStopsTheCycle ==
  ordersError =>
    /\ fetchPc = "done"
    /\ slots = <<>>
    /\ setOrdersCalls = 0 /\ orders = <<>>
    /\ error = "Failed to fetch orders"
    /\ ~loading

\* the query failed while the table holds orders
C4_Witness == ordersError /\ ordersTable # {} /\ fetchPc = "done"

\* C5: whatever the order in which the items queries return, the published
\* list has the length of the orders response and the same id at every
\* position, newest created_at first, and the record at position i carries
\* what the items query of the id at position i returned, never the items of
\* another order.
C5_JoinKeepsResponseOrder ==
  (fetchPc = "done" /\ ~ordersError) =>
    /\ Len(orders) = Len(ordersData)
    /\ \A i \in 1..Len(orders) :
         /\ orders[i].id = ordersData[i].id
         /\ orders[i].items = ItemsOrEmpty(slots[i])
         /\ orders[i].items \in {<<>>, itemsTable[orders[i].id]}
    /\ \A i, j \in 1..Len(orders) :
         i < j => orders[i].created_at > orders[j].created_at

\* two orders whose ids are not in creation order, each with its own items
C5_Witness ==
  /\ fetchPc = "done" /\ Len(orders) >= 2
  /\ orders[1].id < orders[2].id
  /\ orders[1].items # <<>> /\ orders[2].items # <<>>
  /\ orders[1].items # orders[2].items

ExpandedRows == {i \in 1..Len(orders) : orders[i].id = expandedOrderId}

\* C6: before any toggle no row is expanded; at most one row is expanded;
\* after a toggle of row Y, no row is expanded if Y was the expanded one, and
\* exactly Y is expanded otherwise (also when another row X was expanded).
C6_AtMostOneExpanded ==
  /\ Cardinality(ExpandedRows) <= 1
  /\ lastToggle.id = NoOrder => (expandedOrderId = NoOrder /\ ExpandedRows = {})
  /\ lastToggle.id # NoOrder =>
       IF lastToggle.was = lastToggle.id
       THEN expandedOrderId = NoOrder /\ ExpandedRows = {}
       ELSE /\ expandedOrderId = lastToggle.id
            /\ \E i \in 1..Len(orders) :
                 orders[i].id = lastToggle.id /\ ExpandedRows = {i}

\* row Y was toggled while another row X was expanded
C6_Witness ==
  /\ lastToggle.was # NoOrder
  /\ lastToggle.was # lastToggle.id
  /\ expandedOrderId = lastToggle.id

\* the barrier: in the fan-out every mapped order has its query issued, and
\* while a query is outstanding nothing is published
BarrierHolds ==
  /\ fetchPc = "items" => (Len(slots) = Len(ordersData) /\ Pending)
  /\ Pending => (fetchPc = "items" /\ loading /\ setOrdersCalls = 0 /\ orders = <<>>)
  /\ (fetchPc = "done" /\ ~ordersError) => Len(slots) = Len(ordersData)

\* C8: the barrier always holds, and if every issued query returns the cycle
\* ends and loading stays false.
C8_FanOutFanInBarrier == []BarrierHolds /\ <>[](loading = FALSE)

\* some queries of the batch have returned, the others have not
C8_Witness ==
  /\ Pending /\ loading
  /\ \E i, j \in 1..Len(slots) : slots[i].status = "error" /\ slots[j].status = "data"
\* ------------------------------------------------------ claims: subtotal

RECURSIVE SumOver(_, _)
SumOver(S, f) ==
  IF S = {} THEN 0
  ELSE LET x == CHOOSE y \in S : TRUE IN f[x] + SumOver(S \ {x}, f)

LineTotals(items) == [i \in 1..Len(items) |-> items[i].price * items[i].quantity]

\* C7: calculateSubtotal(items) is the sum of price * quantity over the
\* items, 0 for the empty list, and the same for the reversed list.
C7_SubtotalIsTheSum ==
  /\ "items" \in shown =>
       /\ subtotal = SumOver(1..Len(lineItems), LineTotals(lineItems))
       /\ lineItems = <<>> => subtotal = 0
  /\ shown = {"items", "reversed"} => subtotalReversed = subtotal

\* a list of several different lines, computed in both directions
C7_Witness ==
  /\ shown = {"items", "reversed"}
  /\ Len(lineItems) = MaxItems
  /\ lineItems[1] # lineItems[MaxItems]
  /\ lineItems[1].quantity > 1
  /\ subtotal > 0

\* ------------------------------------------------------ claims: migration

\* C10: a finished run of the migration that began with both columns on
\* orders executed no ADD COLUMN, raised no error and left the schema as it
\* was; and every ADD COLUMN a run executed was of a column orders lacked.
C10_MigrationIsIdempotent ==
  (migPc = "idle" /\ migResult # "none") =>
    /\ NewColumns \subseteq snapshot["orders"] =>
         (executed = {} /\ migResult = "ok" /\ schema = snapshot)
    /\ \A c \in executed : c \notin snapshot["orders"]
====
